---- MODULE Spec2Model ----
(***************************************************************************)
(* Forced damped pendulum: simulate, plot_results and bifurcation_diagram  *)
(* of "1 Physics/1 Mechanics/scriptProblem2.py".                           *)
(*                                                                         *)
(* Numbers.  Angles live on a lattice: the integer k stands for the angle  *)
(* k * pi / np_pi, so np_pi lattice steps are exactly pi and exact         *)
(* multiples of pi are lattice points.  Amplitudes are integers too (one   *)
(* step of the sweep's arange).  Time is counted in grid indices: t[i] is  *)
(* i * dt, so the array t is represented by its length alone.  The arrays  *)
(* theta and theta_mod returned by simulate are represented by an element  *)
(* operator (theta_at, theta_mod_at) over the indices 0 .. len_t - 1.      *)
(***************************************************************************)
EXTENDS Integers, Sequences, FiniteSets, Bags, TLC

\* ------------------------------------------------------------------ bounds
\* lattice steps per pi (angular resolution)
np_pi == 4
\* largest |theta| drawn as an input of the normalizer, in lattice steps
MaxTheta == 20
\* longest trajectory drawn as an input of the normalizer
MaxLen == 2
\* largest amplitude (in arange steps) a sweep or a run is given
MaxF0 == 3
\* the solver's trajectories are drawn from a family indexed 1 .. MaxDrift
MaxDrift == 2
\* most work items a sweep merged in any order is given
MaxPool == 3

\* ------------------------------------------------------- program constants
\* l = 1.0
l == 1
\* m = 1.0
m == 1
\* simulate(F0, t_max, points_per_period=100)
default_points_per_period == 100
\* bifurcation_diagram: simulate(F0, 200)
total_periods == 200
\* bifurcation_diagram: np.arange(100 * 100, ...): the periods left out
transient_periods == 100

\* a float that is not a number (what np.mod makes of it stays not a number)
NaN == 1000 * 1000 * 1000

Angles == (0 - MaxTheta) .. MaxTheta

\* ------------------------------------------------------------ normalizer
\* np.mod for a positive divisor: the remainder has the divisor's sign
np_mod(x, y) == x % y

\* C's fmod: the remainder has the dividend's sign
fmod_trunc(x, y) == IF x >= 0 THEN x % y ELSE 0 - ((0 - x) % y)

\* the wrap with the remainder taken as C's fmod takes it
wrap_fmod(theta) ==
    IF theta = NaN THEN NaN ELSE fmod_trunc(theta + np_pi, 2 * np_pi) - np_pi

\* the wrap without the final shift back by pi
wrap_unshifted(theta) ==
    IF theta = NaN THEN NaN ELSE np_mod(theta + np_pi, 2 * np_pi)

\* theta_mod = np.mod(theta + np.pi, 2 * np.pi) - np.pi, one element
wrap(theta) ==
    IF theta = NaN THEN NaN ELSE np_mod(theta + np_pi, 2 * np_pi) - np_pi

\* the line applied to a whole array
normalize(arr) == [i \in DOMAIN arr |-> wrap(arr[i])]

\* ------------------------------------------------------------- np.arange
\* len(np.arange(start, stop, step)) for integers and a positive step
arange_len(start, stop, step) ==
    IF stop > start THEN (stop - start + step - 1) \div step ELSE 0

\* np.arange(start, stop, step) for integers and a positive step
np_arange(start, stop, step) ==
    [k \in 1 .. arange_len(start, stop, step) |-> start + (k - 1) * step]

\* [x] * n
repeat(x, n) == [k \in 1 .. n |-> x]

Amplitudes == 0 .. MaxF0

\* the amplitude ranges a sweep is given: np.arange(start, stop, step), step > 0
Ranges ==
    {np_arange(a, b, c) : a \in 0 .. 1, b \in 0 .. (MaxF0 + 1), c \in 1 .. 2}

\* arguments simulate is called with from outside the script
TMaxInputs == {0 - 1, 0, 1, 2}
PointsInputs == {0 - 100, 0, 1, 100}

VARIABLES
    \* --- the normalizer on its own
    npc,            \* "raw" | "normalized" | "renormalized" ("off" in the program)
    traj,           \* the input angles
    norm1,          \* normalize(traj)
    norm2,          \* normalize(normalize(traj))
    \* --- the program
    pc,             \* position in the script
    caller,         \* who called simulate
    F0,             \* simulate's F0 (the sweep's loop variable)
    t_max,          \* simulate's t_max
    points_per_period,
    len_t,          \* len(t), the time grid being t[i] = i * dt
    istate,         \* what the solver reported for this run: "none" | "ok" | "failed"
    poincare_idx,   \* the stroboscopic indices
    section,        \* theta_mod[poincare_idx] as plot_results plots it
    F0_range,       \* the sweep's amplitudes
    it,             \* how many amplitudes the for loop has taken
    theta_poincare,
    F0_vals,
    pending,        \* amplitudes not merged yet (any-order sweep only)
    \* --- the numerical environment, fixed along a behaviour
    drift,          \* which trajectory family the ODE has
    bad_F0,         \* the amplitude LSODA gives up on (-1: none)
    bad_from,       \* the grid index from which that run's output is unreliable
    junk,           \* what the unreliable output holds
    excess          \* 1 when the float quotient in np.arange rounds above the integer

nvars == <<npc, traj, norm1, norm2>>
frame == <<caller, F0, t_max, points_per_period>>
sweep == <<F0_range, it, theta_poincare, F0_vals>>
env == <<drift, bad_F0, bad_from, junk, excess>>
pvars == <<pc, frame, len_t, istate, poincare_idx, section, sweep, pending>>

vars == <<nvars, pvars, env>>

\* ------------------------------------------------------------ environment
EnvInit ==
    /\ drift \in 1 .. MaxDrift
    /\ bad_F0 \in (0 - 1) .. MaxF0
    /\ bad_from \in {0, 150 * 100}
    /\ junk \in {NaN, 1}
    /\ excess \in {0, 1}

EnvOff ==
    /\ drift = 1
    /\ bad_F0 = 0 - 1
    /\ bad_from = 0
    /\ junk = NaN
    /\ excess = 0

ProgramOff ==
    /\ pc = "off"
    /\ caller = "none"
    /\ F0 = 0
    /\ t_max = 0
    /\ points_per_period = 0
    /\ len_t = 0
    /\ istate = "none"
    /\ poincare_idx = <<>>
    /\ section = <<>>
    /\ F0_range = <<>>
    /\ it = 0
    /\ theta_poincare = <<>>
    /\ F0_vals = <<>>
    /\ pending = {}

NormOff ==
    /\ npc = "off"
    /\ traj = <<>>
    /\ norm1 = <<>>
    /\ norm2 = <<>>

\* ------------------------------------------------- the normalizer on its own
Trajectories == UNION {[1 .. n -> Angles] : n \in 1 .. MaxLen}

InitNorm ==
    /\ npc = "raw"
    /\ traj \in Trajectories
    /\ norm1 = <<>>
    /\ norm2 = <<>>
    /\ ProgramOff
    /\ EnvOff

Normalize ==
    /\ npc = "raw"
    /\ norm1' = normalize(traj)
    /\ npc' = "normalized"
    /\ UNCHANGED <<traj, norm2, pvars, env>>

Renormalize ==
    /\ npc = "normalized"
    /\ norm2' = normalize(norm1)
    /\ npc' = "renormalized"
    /\ UNCHANGED <<traj, norm1, pvars, env>>

NextNorm == Normalize \/ Renormalize

SpecNorm == InitNorm /\ [][NextNorm]_vars

\* ------------------------------------------------------------------ solver
\* odeint's report for a run at amplitude a: LSODA warns and returns when it gives up
lsoda_istate(a) == IF a = bad_F0 THEN "failed" ELSE "ok"

\* sol[i, 0] of odeint(pendulum_deriv, [0, 0], t, ...).  The right-hand side
\* pendulum_deriv (sin, cos) is not evaluated: the solution is a lattice
\* trajectory fixed by the amplitude and the environment's drift, starting at
\* theta = 0 as state0 does, the same for every run at that amplitude.  Past
\* the point where LSODA gave up the rows hold whatever the output array held.
theta_at(a, i) ==
    IF a = bad_F0 /\ i >= bad_from
    THEN junk
    ELSE (drift * (a - 1) * i) \div (10 * default_points_per_period)

\* theta_mod[i] of the run at amplitude a
theta_mod_at(a, i) == wrap(theta_at(a, i))

\* theta_mod[idx] for an index array: numpy raises IndexError on an index >= len
in_bounds(idx, n) == \A k \in DOMAIN idx : idx[k] >= 0 /\ idx[k] < n

\* theta_mod[poincare_idx]
take(a, idx) == [k \in DOMAIN idx |-> theta_mod_at(a, idx[k])]

\* len(np.arange(0, t_max * T, T / points_per_period)): ceil of a float quotient,
\* which for a positive exact value q comes out as q or as q + 1; a zero step
\* count (T / 0 is inf), or a stop on the wrong side of the step, gives no points
grid_len(tm, ppp, up) ==
    IF ppp = 0 \/ tm * ppp <= 0 THEN 0 ELSE tm * ppp + up

\* what the specification calls valid parameters
ValidParams == l > 0 /\ m > 0 /\ points_per_period > 0 /\ t_max >= 0

\* ---------------------------------------------------------------- the script
Init ==
    /\ NormOff
    /\ EnvInit
    /\ pc = "main"
    /\ caller = "none"
    /\ F0 = 0
    /\ t_max = 0
    /\ points_per_period = 0
    /\ len_t = 0
    /\ istate = "none"
    /\ poincare_idx = <<>>
    /\ section = <<>>
    /\ F0_range = <<>>
    /\ it = 0
    /\ theta_poincare = <<>>
    /\ F0_vals = <<>>
    /\ pending = {}

\* a call of simulate(F0, t_max, points_per_period) from outside
CallSimulate ==
    /\ pc = "main"
    /\ \E a \in Amplitudes, tm \in TMaxInputs, ppp \in PointsInputs :
          /\ F0' = a
          /\ t_max' = tm
          /\ points_per_period' = ppp
    /\ caller' = "main"
    /\ pc' = "sim_arange"
    /\ UNCHANGED <<nvars, env, len_t, istate, poincare_idx, section, sweep, pending>>

\* plot_results(F0, label): t, theta, theta_dot, theta_mod = simulate(F0, 100)
CallPlotResults ==
    /\ pc = "main"
    /\ \E a \in Amplitudes : F0' = a
    /\ t_max' = 100
    /\ points_per_period' = default_points_per_period
    /\ caller' = "plot_results"
    /\ pc' = "sim_arange"
    /\ UNCHANGED <<nvars, env, len_t, istate, poincare_idx, section, sweep, pending>>

\* bifurcation_diagram(F0_range): theta_poincare = []; F0_vals = []
CallBifurcation ==
    /\ pc = "main"
    /\ \E r \in Ranges : F0_range' = r
    /\ theta_poincare' = <<>>
    /\ F0_vals' = <<>>
    /\ it' = 0
    /\ caller' = "bifurcation_diagram"
    /\ pc' = "for"
    /\ UNCHANGED <<nvars, env, F0, t_max, points_per_period, len_t, istate,
                   poincare_idx, section, pending>>

\* simulate: dt = T / points_per_period; t = np.arange(0, t_max * T, dt)
SimArange ==
    /\ pc = "sim_arange"
    /\ len_t' = grid_len(t_max, points_per_period, excess)
    /\ pc' = "sim_odeint"
    /\ UNCHANGED <<nvars, env, frame, istate, poincare_idx, section, sweep, pending>>

\* simulate: sol = odeint(...); theta = sol[:, 0]; theta_dot = sol[:, 1]
SimOdeint ==
    /\ pc = "sim_odeint"
    /\ len_t > 0
    /\ istate' = lsoda_istate(F0)
    /\ pc' = "sim_mod"
    /\ UNCHANGED <<nvars, env, frame, len_t, poincare_idx, section, sweep, pending>>

\* odeint on an empty time grid: the library either raises or hands back no rows
SimOdeintEmpty ==
    /\ pc = "sim_odeint"
    /\ len_t = 0
    /\ \/ /\ pc' = "raised"
          /\ istate' = "none"
       \/ /\ pc' = "sim_mod"
          /\ istate' = "ok"
    /\ UNCHANGED <<nvars, env, frame, len_t, poincare_idx, section, sweep, pending>>

\* simulate: theta_mod = np.mod(theta + np.pi, 2 * np.pi) - np.pi
SimMod ==
    /\ pc = "sim_mod"
    /\ pc' = "sim_return"
    /\ UNCHANGED <<nvars, env, frame, len_t, istate, poincare_idx, section, sweep,
                   pending>>

\* simulate: return t, theta, theta_dot, theta_mod
SimReturn ==
    /\ pc = "sim_return"
    /\ pc' = CASE caller = "plot_results" -> "plot_idx"
               [] caller = "bifurcation_diagram" -> "sweep_idx"
               [] OTHER -> "done"
    /\ UNCHANGED <<nvars, env, frame, len_t, istate, poincare_idx, section, sweep,
                   pending>>

\* the index array shifted to start at t = 0
plot_poincare_idx_from_0(n) == np_arange(0, n, 100)

\* plot_results: poincare_idx = np.arange(100, len(t), 100)
plot_poincare_idx(n) == np_arange(100, n, 100)

PlotIdx ==
    /\ pc = "plot_idx"
    /\ poincare_idx' = plot_poincare_idx(len_t)
    /\ pc' = "plot_section"
    /\ UNCHANGED <<nvars, env, frame, len_t, istate, section, sweep, pending>>

\* plot_results: plt.plot(theta_mod[poincare_idx], theta_dot[poincare_idx], ...)
PlotSection ==
    /\ pc = "plot_section"
    /\ IF in_bounds(poincare_idx, len_t)
       THEN /\ section' = take(F0, poincare_idx)
            /\ pc' = "done"
       ELSE /\ section' = section
            /\ pc' = "IndexError"
    /\ UNCHANGED <<nvars, env, frame, len_t, istate, poincare_idx, sweep, pending>>

\* bifurcation_diagram: for F0 in F0_range: ... = simulate(F0, 200)
ForNext ==
    /\ pc = "for"
    /\ it < Len(F0_range)
    /\ it' = it + 1
    /\ F0' = F0_range[it + 1]
    /\ t_max' = total_periods
    /\ points_per_period' = default_points_per_period
    /\ pc' = "sim_arange"
    /\ UNCHANGED <<nvars, env, caller, len_t, istate, poincare_idx, section,
                   F0_range, theta_poincare, F0_vals, pending>>

\* the loop is exhausted: plt.figure ... plt.savefig('bifurcation.png')
ForExit ==
    /\ pc = "for"
    /\ it >= Len(F0_range)
    /\ pc' = "done"
    /\ UNCHANGED <<nvars, env, frame, len_t, istate, poincare_idx, section, sweep,
                   pending>>

\* the index array with the stop value included
sweep_poincare_idx_inclusive == np_arange(100 * 100, 200 * 100 + 1, 100)

\* the index array starting after one period, as plot_results starts it
sweep_poincare_idx_from_100 == np_arange(100, 200 * 100, 100)

\* the index array with start and stop exchanged
sweep_poincare_idx_swapped == np_arange(200 * 100, 100 * 100, 100)

\* bifurcation_diagram: poincare_idx = np.arange(100 * 100, 200 * 100, 100)
sweep_poincare_idx == np_arange(100 * 100, 200 * 100, 100)

SweepIdx ==
    /\ pc = "sweep_idx"
    /\ poincare_idx' = sweep_poincare_idx
    /\ pc' = "extend_theta"
    /\ UNCHANGED <<nvars, env, frame, len_t, istate, section, sweep, pending>>

\* an assignment where the code extends
assign_theta(acc, a, idx) == take(a, idx)

\* theta_poincare.extend(theta_mod[poincare_idx])
extend_theta(acc, a, idx) == acc \o take(a, idx)

ExtendTheta ==
    /\ pc = "extend_theta"
    /\ IF in_bounds(poincare_idx, len_t)
       THEN /\ theta_poincare' = extend_theta(theta_poincare, F0, poincare_idx)
            /\ pc' = "extend_F0"
       ELSE /\ theta_poincare' = theta_poincare
            /\ pc' = "IndexError"
    /\ UNCHANGED <<nvars, env, frame, len_t, istate, poincare_idx, section,
                   F0_range, it, F0_vals, pending>>

\* an append where the code extends
append_F0(acc, a, idx) == Append(acc, a)

\* F0_vals.extend([F0] * len(poincare_idx))
extend_F0(acc, a, idx) == acc \o repeat(a, Len(idx))

ExtendF0 ==
    /\ pc = "extend_F0"
    /\ F0_vals' = extend_F0(F0_vals, F0, poincare_idx)
    /\ pc' = "for"
    /\ UNCHANGED <<nvars, env, frame, len_t, istate, poincare_idx, section,
                   F0_range, it, theta_poincare, pending>>

Next ==
    \/ CallSimulate
    \/ CallPlotResults
    \/ CallBifurcation
    \/ SimArange
    \/ SimOdeint
    \/ SimOdeintEmpty
    \/ SimMod
    \/ SimReturn
    \/ PlotIdx
    \/ PlotSection
    \/ ForNext
    \/ ForExit
    \/ SweepIdx
    \/ ExtendTheta
    \/ ExtendF0

Spec == Init /\ [][Next]_vars

\* ------------------------------------------------ the sweep in any order
\* the for loop of bifurcation_diagram over the first n amplitudes of r, in order:
\* <<theta_poincare, F0_vals>>
RECURSIVE sweep_lists(_, _)
sweep_lists(r, n) ==
    IF n = 0
    THEN <<<<>>, <<>>>>
    ELSE LET prev == sweep_lists(r, n - 1)
         IN  <<extend_theta(prev[1], r[n], sweep_poincare_idx),
               extend_F0(prev[2], r[n], sweep_poincare_idx)>>

InitAnyOrder ==
    /\ NormOff
    /\ EnvInit
    /\ pc = "pool"
    /\ caller = "bifurcation_diagram"
    /\ F0 = 0
    /\ t_max = total_periods
    /\ points_per_period = default_points_per_period
    /\ len_t = grid_len(total_periods, default_points_per_period, excess)
    /\ istate = "none"
    /\ poincare_idx = sweep_poincare_idx
    /\ section = <<>>
    /\ F0_range \in {r \in Ranges : Len(r) <= MaxPool}
    /\ it = 0
    /\ theta_poincare = <<>>
    /\ F0_vals = <<>>
    /\ pending = {F0_range[k] : k \in DOMAIN F0_range}

\* one work item, the loop body for one amplitude, merged in one step
MergeWorkItem ==
    /\ pc = "pool"
    /\ \E a \in pending :
          /\ F0' = a
          /\ istate' = lsoda_istate(a)
          /\ pending' = pending \ {a}
          /\ IF in_bounds(poincare_idx, len_t)
             THEN /\ theta_poincare' = extend_theta(theta_poincare, a, poincare_idx)
                  /\ F0_vals' = extend_F0(F0_vals, a, poincare_idx)
                  /\ pc' = "pool"
             ELSE /\ UNCHANGED <<theta_poincare, F0_vals>>
                  /\ pc' = "IndexError"
    /\ it' = it + 1
    /\ UNCHANGED <<nvars, env, caller, t_max, points_per_period, len_t,
                   poincare_idx, section, F0_range>>

\* every work item is merged: the dataset goes to the plot
PoolDone ==
    /\ pc = "pool"
    /\ pending = {}
    /\ pc' = "done"
    /\ UNCHANGED <<nvars, env, frame, len_t, istate, poincare_idx, section, sweep,
                   pending>>

NextAnyOrder == MergeWorkItem \/ PoolDone

SpecAnyOrder == InitAnyOrder /\ [][NextAnyOrder]_vars

\* ================================================================== claims
InSweep == caller = "bifurcation_diagram"

\* points kept per amplitude
KeptPerAmplitude == total_periods - transient_periods

\* len(range(a, b, s)) of Python, s > 0
PyRangeLen(a, b, s) == IF b > a THEN ((b - a - 1) \div s) + 1 ELSE 0

\* the pairs (amplitude, theta_mod) of a dataset, with how often each occurs
PairsBag(fv, tp) ==
    LET n == IF Len(fv) < Len(tp) THEN Len(fv) ELSE Len(tp)
        pairs == {<<fv[i], tp[i]>> : i \in 1 .. n}
    IN  [p \in pairs |-> Cardinality({i \in 1 .. n : <<fv[i], tp[i]>> = p})]

IsPrefix(s1, s2) == Len(s1) <= Len(s2) /\ SubSeq(s2, 1, Len(s1)) = s1

C3_OneGroupPerAmplitude ==
    (InSweep /\ pc = "done") =>
        /\ Len(F0_vals) = Len(theta_poincare)
        /\ \A i \in DOMAIN F0_vals : \E k \in DOMAIN F0_range : F0_vals[i] = F0_range[k]
        /\ \A k \in DOMAIN F0_range :
              LET a == F0_range[k]
                  starts == {i \in DOMAIN F0_vals :
                                /\ F0_vals[i] = a
                                /\ (i = 1 \/ F0_vals[i - 1] # a)}
              IN  /\ Cardinality(starts) <= 1
                  /\ (starts = {} => lsoda_istate(a) = "failed")

C3_Witness ==
    /\ InSweep
    /\ pc = "done"
    /\ Len(F0_range) = 3
    /\ bad_F0 = F0_range[2]
    /\ Len(F0_vals) = 3 * KeptPerAmplitude
    /\ F0_vals[KeptPerAmplitude + 1] = bad_F0

\* C4: for every amplitude swept, the points kept are exactly the stroboscopic
\* samples of the drive periods transient_periods .. total_periods - 1: index
\* p * points_per_period for each such p, one per period, none from an earlier
\* period, total_periods - transient_periods points per amplitude.
C4_SteadyStateSamples ==
    /\ (InSweep /\ pc \in {"extend_theta", "extend_F0"}) =>
          poincare_idx =
              [j \in 1 .. KeptPerAmplitude |->
                  (transient_periods + j - 1) * points_per_period]
    /\ (InSweep /\ pc \in {"for", "done"}) =>
          /\ Len(theta_poincare) = it * KeptPerAmplitude
          /\ \A k \in 1 .. it : \A j \in 1 .. KeptPerAmplitude :
                theta_poincare[(k - 1) * KeptPerAmplitude + j] =
                    theta_mod_at(F0_range[k],
                                 (transient_periods + j - 1) * points_per_period)

C4_Witness ==
    /\ InSweep
    /\ pc = "for"
    /\ it = 2
    /\ Len(theta_poincare) = 2 * KeptPerAmplitude
    /\ theta_poincare[1] # theta_poincare[KeptPerAmplitude]

\* C5 as stated: a failed integration does not abort the sweep and the failed
\* amplitude is recorded with a sentinel: every point the dataset holds for an
\* amplitude whose integration failed is the not-a-number sentinel.
C5_FailureRecordedAsSentinel ==
    (InSweep /\ pc \in {"for", "done"}) =>
        \A i \in DOMAIN F0_vals :
            lsoda_istate(F0_vals[i]) = "failed" => theta_poincare[i] = NaN

\* C6 as stated: the integration step is never reached with invalid parameters.
C6_FailFast ==
    pc \in {"sim_odeint", "sim_mod", "sim_return"} => ValidParams

C9_AtLoopHead ==
    (InSweep /\ pc = "for") =>
        /\ Len(F0_vals) = Len(theta_poincare)
        /\ \A i \in DOMAIN theta_poincare :
              theta_poincare[i] =
                  theta_mod_at(F0_vals[i],
                               sweep_poincare_idx[((i - 1) % KeptPerAmplitude) + 1])
        /\ \A i \in 1 .. (Len(F0_vals) - 1) : F0_vals[i] <= F0_vals[i + 1]

\* the step part of C9: both lists only grow at their end
C9_Grow ==
    /\ IsPrefix(F0_vals, F0_vals')
    /\ IsPrefix(theta_poincare, theta_poincare')

\* C9: at the end of every iteration of the sweep's loop F0_vals and
\* theta_poincare have the same length, theta_poincare[i] is the sample of the
\* run at amplitude F0_vals[i], the amplitudes in F0_vals never decrease; and no
\* step removes or rewrites an element of either list.
C9_ParallelLists == [](C9_AtLoopHead) /\ [][C9_Grow]_vars

C9_Witness ==
    /\ InSweep
    /\ pc = "for"
    /\ it = 2
    /\ Len(F0_vals) = 2 * KeptPerAmplitude
    /\ F0_vals[1] < F0_vals[Len(F0_vals)]

\* C10: in every iteration of the sweep each index of poincare_idx (10000,
\* 10100, ..., 19900) is a valid index of the arrays simulate(F0, 200) returned,
\* whose length is at least total_periods * points_per_period = 20000; no
\* IndexError is raised.
C10_IndicesInRange ==
    InSweep =>
        /\ pc # "IndexError"
        /\ pc \in {"extend_theta", "extend_F0"} =>
              /\ len_t >= total_periods * default_points_per_period
              /\ Len(poincare_idx) = 100
              /\ poincare_idx[1] = 10000
              /\ poincare_idx[100] = 19900
              /\ \A k \in DOMAIN poincare_idx :
                    poincare_idx[k] >= 0 /\ poincare_idx[k] < len_t

C10_Witness ==
    /\ InSweep
    /\ pc = "extend_F0"
    /\ len_t = 20000
    /\ poincare_idx[Len(poincare_idx)] = 19900
    /\ Len(theta_poincare) = it * Len(poincare_idx)
    /\ it = 2

====
